---- MODULE Spec2Model ----
(***************************************************************************)
(* Model of the vision bridge (src/.mcp/vision-bridge/server.py): path     *)
(* resolution against the workspace root, image normalization, the backend *)
(* chat request and the three tool handlers.                               *)
(***************************************************************************)
EXTENDS Integers, Sequences, FiniteSets, TLC

(***************************************************************************)
(* IEEE-754 binary64 arithmetic, as far as `MAX_IMAGE_EDGE / edge`,        *)
(* `w * scale` and `int(...)` need it.  A positive double is a record      *)
(* [m, e]: m is the 53-bit significand, most significant bit first (always *)
(* 1), and the value is m * 2^e.  Python's int / int and float * float are *)
(* correctly rounded, round-half-to-even.                                  *)
(***************************************************************************)
MantBits == 53

Pow2(n) == 2 ^ n

\* The number of zero bits that open the binary fraction of r / d, 0 < r < d.
LeadingZeros(r, d) ==
    CHOOSE z \in 0..30 : r * Pow2(z) < d /\ r * Pow2(z + 1) >= d

RECURSIVE LongDiv(_, _, _)
\* n >= 1 more bits of the binary fraction of r / d (r < d), and the remainder
\* left: one step of long division for n = 1, else the two halves in turn.
LongDiv(r, d, n) ==
    IF n = 1
    THEN LET b == IF 2 * r >= d THEN 1 ELSE 0
         IN  [q |-> <<b>>, r |-> 2 * r - b * d]
    ELSE LET hi == LongDiv(r, d, n \div 2)
             lo == LongDiv(hi.r, d, n - n \div 2)
         IN  [q |-> hi.q \o lo.q, r |-> lo.r]

\* bits + 1, most significant bit first; all ones carries into a longer result.
Incr(bits) ==
    LET n     == Len(bits)
        zeros == {i \in 1..n : bits[i] = 0}
    IN  IF zeros = {} THEN <<1>> \o [i \in 1..n |-> 0]
        ELSE LET j == CHOOSE i \in zeros : \A k \in zeros : k <= i
             IN  [i \in 1..n |-> IF i < j THEN bits[i] ELSE IF i = j THEN 1 ELSE 0]

\* The significand rounded up when `up`, renormalised to MantBits bits.
Rounded(keep, e, up) ==
    LET inc == Incr(keep) IN
    IF ~up THEN [m |-> keep, e |-> e]
    ELSE IF Len(inc) > MantBits THEN [m |-> SubSeq(inc, 1, MantBits), e |-> e + 1]
    ELSE [m |-> inc, e |-> e]

\* a / b for ints 0 < a < b: the double nearest the quotient.
FloatDiv(a, b) ==
    LET z    == LeadingZeros(a, b)
        d    == LongDiv(a * Pow2(z), b, MantBits)
        last == d.q[MantBits]
        up   == 2 * d.r > b \/ (2 * d.r = b /\ last = 1)
    IN  Rounded(d.q, 0 - (z + MantBits), up)

\* The binary digits of n < 2^30, most significant first; none for 0.
BitsOf(n) ==
    LET len == CHOOSE l \in 0..30 : Pow2(l) > n /\ (l = 0 \/ Pow2(l - 1) <= n)
    IN  [i \in 1..len |-> (n \div Pow2(len - i)) % 2]

RECURSIVE MulBits(_, _, _)
\* k * bits + carry as Len(bits) low bits (most significant first) and the
\* carry out of them: one digit for a single bit, else the low half's carry
\* feeds the high half (the test on lo.c only makes the low half be
\* evaluated first; a carry is never negative).
MulBits(bits, k, carry) ==
    LET n == Len(bits) IN
    IF n = 1
    THEN LET t == k * bits[1] + carry IN [q |-> <<t % 2>>, c |-> t \div 2]
    ELSE LET lo == MulBits(SubSeq(bits, n \div 2 + 1, n), k, carry)
             hi == MulBits(SubSeq(bits, 1, n \div 2), k, lo.c)
         IN  IF lo.c >= 0 THEN [q |-> hi.q \o lo.q, c |-> hi.c] ELSE lo

\* k * x for an int k >= 1 (exact as a double) and a double x: the exact
\* product rounded to MantBits bits, ties to even.
FloatMul(k, x) ==
    LET low    == MulBits(x.m, k, 0)
        p      == BitsOf(low.c) \o low.q
        L      == Len(p)
        keep   == SubSeq(p, 1, MantBits)
        guard  == IF L > MantBits THEN p[MantBits + 1] ELSE 0
        sticky == \E i \in (MantBits + 2)..L : p[i] = 1
        up     == guard = 1 /\ (sticky \/ keep[MantBits] = 1)
    IN  Rounded(keep, x.e + (L - MantBits), up)

RECURSIVE BitsToInt(_)
BitsToInt(bits) ==
    LET n == Len(bits) IN
    IF n = 0 THEN 0
    ELSE IF n = 1 THEN bits[1]
    ELSE BitsToInt(SubSeq(bits, 1, n \div 2)) * Pow2(n - n \div 2)
         + BitsToInt(SubSeq(bits, n \div 2 + 1, n))

\* int(x): truncation toward zero of a positive double below 2^30.
FloatToInt(x) ==
    LET drop == 0 - x.e IN
    IF drop >= MantBits THEN 0
    ELSE BitsToInt(SubSeq(x.m, 1, MantBits - drop))

Max(a, b) == IF a >= b THEN a ELSE b

\* TargetSize scaled by the width where the longest edge is meant.
TargetSizeByWidth(size, maxEdge) ==
    LET w    == size[1]
        h    == size[2]
        edge == w
    IN  IF edge > maxEdge
        THEN LET scale == FloatDiv(maxEdge, edge)
                 sw    == FloatMul(w, scale)
                 sh    == FloatMul(h, scale)
             IN  IF scale.m # <<>> /\ sw.m # <<>> /\ sh.m # <<>>
                 THEN <<FloatToInt(sw), FloatToInt(sh)>>
                 ELSE <<w, h>>
        ELSE <<w, h>>

\* The size _load_image_b64 encodes for a decoded image of size <<w, h>>.
TargetSize(size, maxEdge) ==
    LET w    == size[1]
        h    == size[2]
        edge == Max(w, h)
    IN  IF edge > maxEdge
        THEN LET scale == FloatDiv(maxEdge, edge)
                 sw    == FloatMul(w, scale)
                 sh    == FloatMul(h, scale)
             IN  \* the tests only fix the order of evaluation: scale, then the
                 \* two products (a significand is never empty)
                 IF scale.m # <<>> /\ sw.m # <<>> /\ sh.m # <<>>
                 THEN <<FloatToInt(sw), FloatToInt(sh)>>
                 ELSE <<w, h>>
        ELSE <<w, h>>

(***************************************************************************)
(* Text.  A str is a sequence of one-character strings; a path is split    *)
(* into its components, each component a str.                              *)
(***************************************************************************)
\* The letters the model's file names use.
Upper == <<"A", "B", "F", "G", "I", "J", "N", "P">>
Lower == <<"a", "b", "f", "g", "i", "j", "n", "p">>

\* str.lower(), one character.
LowerChar(c) ==
    IF \E i \in 1..Len(Upper) : Upper[i] = c
    THEN Lower[CHOOSE i \in 1..Len(Upper) : Upper[i] = c]
    ELSE c

\* str.lower()
ToLower(s) == [i \in 1..Len(s) |-> LowerChar(s[i])]

\* PurePath.suffix: the last component from its last dot on, unless the dot
\* opens or closes the name.
Suffix(name) ==
    LET dots == {i \in 1..Len(name) : name[i] = "."}
    IN  IF dots = {} THEN <<>>
        ELSE LET i == CHOOSE d \in dots : \A e \in dots : e <= d
             IN  IF 1 < i /\ i < Len(name) THEN SubSeq(name, i, Len(name)) ELSE <<>>

\* The image types _resolve_workspace_path lets through.
AllowedSuffixes ==
    { <<".", "p", "n", "g">>, <<".", "j", "p", "g">>, <<".", "j", "p", "e", "g">>,
      <<".", "w", "e", "b", "p">>, <<".", "b", "m", "p">> }

\* The components of a path string between its slashes, empty ones included.
SplitSlash(s) ==
    LET cuts == <<0>> \o [i \in 1..Cardinality({j \in 1..Len(s) : s[j] = "/"}) |->
                    CHOOSE j \in 1..Len(s) :
                        /\ s[j] = "/"
                        /\ Cardinality({k \in 1..j : s[k] = "/"}) = i]
                 \o <<Len(s) + 1>>
    IN  [i \in 1..(Len(cuts) - 1) |-> SubSeq(s, cuts[i] + 1, cuts[i + 1] - 1)]

Dot    == <<".">>
DotDot == <<".", ".">>

RECURSIVE DropEmptyAndDot(_)
DropEmptyAndDot(parts) ==
    IF parts = <<>> THEN <<>>
    ELSE IF Head(parts) = <<>> \/ Head(parts) = Dot THEN DropEmptyAndDot(Tail(parts))
    ELSE <<Head(parts)>> \o DropEmptyAndDot(Tail(parts))

\* Path(p): whether p is absolute, and its components; pathlib drops empty
\* and "." components and keeps "..".
PathOf(p) ==
    [abs   |-> Len(p) > 0 /\ p[1] = "/",
     parts |-> DropEmptyAndDot(SplitSlash(p))]

(***************************************************************************)
(* The filesystem: a function from the absolute paths present (sequences   *)
(* of components below "/") to nodes.  A file holds image data of a pixel  *)
(* size, or data no codec reads (size <<0, 0>>).                           *)
(***************************************************************************)
DirNode        == [kind |-> "dir",  target |-> <<>>, size |-> <<0, 0>>]
ImageFile(wh)  == [kind |-> "file", target |-> <<>>, size |-> wh]
JunkFile       == [kind |-> "file", target |-> <<>>, size |-> <<0, 0>>]
LinkNode(to)   == [kind |-> "link", target |-> to,   size |-> <<0, 0>>]

Parent(path) == IF path = <<>> THEN <<>> ELSE SubSeq(path, 1, Len(path) - 1)

RECURSIVE JoinRealPath(_, _, _)
\* os.path.realpath, not strict: `rest` is walked component by component
\* from the resolved `path`; ".." steps to the parent of what is resolved so
\* far, a symbolic link is replaced by its resolved target, and a component
\* that does not exist is appended as it is.
JoinRealPath(files, path, rest) ==
    IF rest = <<>> THEN path
    ELSE LET name    == Head(rest)
             newpath == Append(path, name)
         IN  IF name = DotDot THEN JoinRealPath(files, Parent(path), Tail(rest))
             ELSE IF newpath \in DOMAIN files /\ files[newpath].kind = "link"
             THEN LET to == PathOf(files[newpath].target)
                      at == JoinRealPath(files, IF to.abs THEN <<>> ELSE path, to.parts)
                  IN  JoinRealPath(files, at, Tail(rest))
             ELSE JoinRealPath(files, newpath, Tail(rest))

\* Path.resolve() of an absolute path
Resolve(files, parts) == JoinRealPath(files, <<>>, parts)

\* Path.exists()
Exists(files, path) == path = <<>> \/ path \in DOMAIN files

\* IsRelativeTo as a prefix test on the path strings: the last component of
\* root may open a longer component of path.
IsRelativeToByStringPrefix(path, root) ==
    /\ root # <<>>
    /\ Len(root) <= Len(path)
    /\ SubSeq(path, 1, Len(root) - 1) = SubSeq(root, 1, Len(root) - 1)
    /\ LET last == root[Len(root)]
           comp == path[Len(root)]
       IN  Len(last) <= Len(comp) /\ SubSeq(comp, 1, Len(last)) = last

\* Path.relative_to(root) does not raise: root's components open path's.
IsRelativeTo(path, root) ==
    Len(root) <= Len(path) /\ SubSeq(path, 1, Len(root)) = root

\* Path.name
NameOf(path) == IF path = <<>> THEN <<>> ELSE path[Len(path)]

NoError == [type |-> "", msg |-> "", arg |-> <<>>]

\* SuffixAllowed without the lower-casing.
SuffixAllowedCaseSensitive(suffix) == suffix \in AllowedSuffixes

\* candidate.suffix.lower() in {".png", ".jpg", ".jpeg", ".webp", ".bmp"}
SuffixAllowed(suffix) == ToLower(suffix) \in AllowedSuffixes

\* ResolveWorkspacePath with the existence check ahead of the containment
\* check.
ResolveWorkspacePathExistsFirst(files, root, p) ==
    LET raw       == PathOf(p)
        candidate == IF ~raw.abs THEN Resolve(files, root \o raw.parts)
                     ELSE Resolve(files, raw.parts)
        suffix    == Suffix(NameOf(candidate))
    IN  IF ~Exists(files, candidate)
        THEN [ok |-> FALSE, path |-> <<>>,
              err |-> [type |-> "FileNotFoundError",
                       msg  |-> "File not found: ",
                       arg  |-> candidate]]
        ELSE IF ~IsRelativeTo(candidate, root)
        THEN [ok |-> FALSE, path |-> <<>>,
              err |-> [type |-> "ValueError",
                       msg  |-> "Path must be within workspace root: ",
                       arg  |-> root]]
        ELSE IF ~SuffixAllowed(suffix)
        THEN [ok |-> FALSE, path |-> <<>>,
              err |-> [type |-> "ValueError",
                       msg  |-> "Unsupported image type: ",
                       arg  |-> suffix]]
        ELSE [ok |-> TRUE, path |-> candidate, err |-> NoError]

\* _resolve_workspace_path(p) under workspace root `root`
ResolveWorkspacePath(files, root, p) ==
    LET raw       == PathOf(p)
        candidate == IF ~raw.abs THEN Resolve(files, root \o raw.parts)
                     ELSE Resolve(files, raw.parts)
        suffix    == Suffix(NameOf(candidate))
    IN  IF ~IsRelativeTo(candidate, root)
        THEN [ok |-> FALSE, path |-> <<>>,
              err |-> [type |-> "ValueError",
                       msg  |-> "Path must be within workspace root: ",
                       arg  |-> root]]
        ELSE IF ~Exists(files, candidate)
        THEN [ok |-> FALSE, path |-> <<>>,
              err |-> [type |-> "FileNotFoundError",
                       msg  |-> "File not found: ",
                       arg  |-> candidate]]
        ELSE IF ~SuffixAllowed(suffix)
        THEN [ok |-> FALSE, path |-> <<>>,
              err |-> [type |-> "ValueError",
                       msg  |-> "Unsupported image type: ",
                       arg  |-> suffix]]
        ELSE [ok |-> TRUE, path |-> candidate, err |-> NoError]

(***************************************************************************)
(* The filesystems and the caller's paths the model runs on.               *)
(***************************************************************************)
BigSize   == <<3200, 1800>>
SmallSize == <<800, 600>>

\* /w is the workspace; /e and /wx lie outside it.  /w/l is a symbolic link
\* to `linkTo`, /w/k one to a.png; /w/s.png is a directory.
Layout(linkTo) ==
    (<<<<"w">>>> :> DirNode)
    @@ (<<<<"e">>>> :> DirNode)
    @@ (<<<<"w", "x">>>> :> DirNode)
    @@ (<<<<"w">>, <<"a", ".", "p", "n", "g">>>> :> ImageFile(BigSize))
    @@ (<<<<"w">>, <<"b", ".", "P", "N", "G">>>> :> ImageFile(SmallSize))
    @@ (<<<<"w">>, <<"c", ".", "g", "i", "f">>>> :> ImageFile(SmallSize))
    @@ (<<<<"w">>, <<"d">>>> :> ImageFile(SmallSize))
    @@ (<<<<"w">>, <<".", "p", "n", "g">>>> :> ImageFile(SmallSize))
    @@ (<<<<"w">>, <<"n", ".", "j", "p", "e", "g">>>> :> JunkFile)
    @@ (<<<<"w">>, <<"s", ".", "p", "n", "g">>>> :> DirNode)
    @@ (<<<<"w">>, <<"s", ".", "p", "n", "g">>, <<"f", ".", "j", "p", "g">>>> :> ImageFile(SmallSize))
    @@ (<<<<"w">>, <<"k">>>> :> LinkNode(<<"a", ".", "p", "n", "g">>))
    @@ (<<<<"w">>, <<"l">>>> :> LinkNode(linkTo))
    @@ (<<<<"e">>, <<"p", ".", "p", "n", "g">>>> :> ImageFile(SmallSize))
    @@ (<<<<"w", "x">>, <<"a", ".", "p", "n", "g">>>> :> ImageFile(SmallSize))

Layouts == {Layout(<<"/", "e">>), Layout(<<"s", ".", "p", "n", "g">>)}

\* The image_path arguments of the calls.
ImagePaths ==
    { <<"a", ".", "p", "n", "g">>,   \* a.png
      <<"b", ".", "P", "N", "G">>,   \* b.PNG
      <<"c", ".", "g", "i", "f">>,   \* c.gif
      <<"d">>,   \* d
      <<".", "p", "n", "g">>,   \* .png
      <<"s", ".", "p", "n", "g">>,   \* s.png
      <<"s", ".", "p", "n", "g", "/", "f", ".", "j", "p", "g">>,   \* s.png/f.jpg
      <<"s", ".", "p", "n", "g", "/", ".", ".", "/", "a", ".", "p", "n", "g">>,   \* s.png/../a.png
      <<"k">>,   \* k
      <<"l", "/", "p", ".", "p", "n", "g">>,   \* l/p.png
      <<"l", "/", ".", ".", "/", "w", "/", "a", ".", "p", "n", "g">>,   \* l/../w/a.png
      <<".", ".", "/", "e", "/", "p", ".", "p", "n", "g">>,   \* ../e/p.png
      <<".", ".", "/", ".", ".", "/", "e", "/", "q", ".", "p", "n", "g">>,   \* ../../e/q.png
      <<"/", "e", "/", "p", ".", "p", "n", "g">>,   \* /e/p.png
      <<"/", "w", "/", "a", ".", "p", "n", "g">>,   \* /w/a.png
      <<"/", "w", "/", ".", "/", "b", ".", "P", "N", "G">>,   \* /w/./b.PNG
      <<"/", "w", "x", "/", "a", ".", "p", "n", "g">>,   \* /wx/a.png
      <<"x", ".", "p", "n", "g">>,   \* x.png
      <<"x", ".", "g", "i", "f">>,   \* x.gif
      <<>>,   \* (empty)
      <<".", "/", "a", ".", "p", "n", "g">>,   \* ./a.png
      <<"n", ".", "j", "p", "e", "g", "/">>   \* n.jpeg/
    }

(***************************************************************************)
(* JSON text.  A text is a sequence of lexical tokens <<kind, payload>>;   *)
(* the payload of a string token is the text between its quotes.           *)
(***************************************************************************)
LB    == <<"punct", "{">>
RB    == <<"punct", "}">>
LK    == <<"punct", "[">>
RK    == <<"punct", "]">>
COLON == <<"punct", ":">>
COMMA == <<"punct", ",">>
SP    == <<"ws", " ">>
NL    == <<"ws", "\n">>
NULL  == <<"lit", "null">>
TRUE_ == <<"lit", "true">>
ONE   == <<"num", "1">>
ZERO  == <<"num", "0">>
Word(s) == <<"word", s>>
Str(text) == <<"str", text>>
Key(s) == Str(<<Word(s)>>)

IsWs(tok) == tok[1] = "ws"
IsPunct(tok, c) == tok[1] = "punct" /\ tok[2] = c

\* str.strip()
Strip(text) ==
    LET keep == {i \in 1..Len(text) : ~IsWs(text[i])}
    IN  IF keep = {} THEN <<>>
        ELSE SubSeq(text, CHOOSE i \in keep : \A j \in keep : i <= j,
                          CHOOSE i \in keep : \A j \in keep : j <= i)

\* dict[key] = value: a dict is a sequence of <<key, value>> pairs in
\* insertion order, a later value for a key replacing the earlier one.
DictSet(pairs, key, value) ==
    IF \E i \in 1..Len(pairs) : pairs[i][1] = key
    THEN [i \in 1..Len(pairs) |-> IF pairs[i][1] = key THEN <<key, value>> ELSE pairs[i]]
    ELSE Append(pairs, <<key, value>>)

HasKey(pairs, key) == \E i \in 1..Len(pairs) : pairs[i][1] = key

\* dict.get(key, default)
DictGet(pairs, key, default) ==
    IF HasKey(pairs, key)
    THEN pairs[CHOOSE i \in 1..Len(pairs) : pairs[i][1] = key][2]
    ELSE default

ParseFail == [ok |-> FALSE, v |-> <<>>, next |-> 0]

RECURSIVE ParseValue(_, _)
RECURSIVE ParseMembers(_, _, _)
RECURSIVE ParseItems(_, _, _)

\* One JSON value of the tokens t from position i on: an object is
\* <<"obj", pairs>>, an array <<"arr", items>>, a string, number or literal
\* its token.
ParseValue(t, i) ==
    IF i > Len(t) THEN ParseFail
    ELSE IF IsPunct(t[i], "{")
    THEN IF i < Len(t) /\ IsPunct(t[i + 1], "}")
         THEN [ok |-> TRUE, v |-> <<"obj", <<>>>>, next |-> i + 2]
         ELSE ParseMembers(t, i + 1, <<>>)
    ELSE IF IsPunct(t[i], "[")
    THEN IF i < Len(t) /\ IsPunct(t[i + 1], "]")
         THEN [ok |-> TRUE, v |-> <<"arr", <<>>>>, next |-> i + 2]
         ELSE ParseItems(t, i + 1, <<>>)
    ELSE IF t[i][1] \in {"str", "num", "lit"}
    THEN [ok |-> TRUE, v |-> t[i], next |-> i + 1]
    ELSE ParseFail

\* "key": value pairs from position i up to the closing brace
ParseMembers(t, i, acc) ==
    IF i + 2 > Len(t) \/ t[i][1] # "str" \/ ~IsPunct(t[i + 1], ":") THEN ParseFail
    ELSE LET r == ParseValue(t, i + 2) IN
         IF ~r.ok \/ r.next > Len(t) THEN ParseFail
         ELSE LET pairs == DictSet(acc, t[i][2], r.v) IN
              IF IsPunct(t[r.next], ",") THEN ParseMembers(t, r.next + 1, pairs)
              ELSE IF IsPunct(t[r.next], "}")
              THEN [ok |-> TRUE, v |-> <<"obj", pairs>>, next |-> r.next + 1]
              ELSE ParseFail

\* array items from position i up to the closing bracket
ParseItems(t, i, acc) ==
    LET r == ParseValue(t, i) IN
    IF ~r.ok \/ r.next > Len(t) THEN ParseFail
    ELSE IF IsPunct(t[r.next], ",") THEN ParseItems(t, r.next + 1, Append(acc, r.v))
    ELSE IF IsPunct(t[r.next], "]")
    THEN [ok |-> TRUE, v |-> <<"arr", Append(acc, r.v)>>, next |-> r.next + 1]
    ELSE ParseFail

\* json.loads(text) / Response.json(): whitespace between tokens is skipped
\* and nothing may follow the value.
JsonLoads(text) ==
    LET t == SelectSeq(text, LAMBDA tok : ~IsWs(tok))
        r == ParseValue(t, 1)
    IN  IF r.ok /\ r.next = Len(t) + 1 THEN [ok |-> TRUE, v |-> r.v]
        ELSE [ok |-> FALSE, v |-> <<>>]

(***************************************************************************)
(* The backend: what requests.post can come to, and the reply texts a      *)
(* response may carry.                                                     *)
(***************************************************************************)
MaxReplyLen == 2

ReplyAlphabet == {LB, RB, NULL, SP, Word("button"), Key("summary")}

\* Every text of at most MaxReplyLen tokens over ReplyAlphabet.
ShortTexts == UNION {[1..n -> ReplyAlphabet] : n \in 0..MaxReplyLen}

UiDoc ==
    <<LB, Key("summary"), COLON, Key("ok"), COMMA, Key("elements"), COLON, LK, RK, RB>>

UiDocOneElement ==
    <<LB, Key("summary"), COLON, Key("ok"), COMMA, Key("elements"), COLON,
      LK, LB, Key("type"), COLON, Key("button"), COMMA, Key("label"), COLON, NULL, RB, RK, RB>>

SampleTexts ==
    { UiDoc,
      <<NL, SP>> \o UiDoc \o <<NL>>,
      <<LB, SP, Key("summary"), COLON, SP, Key("ok"), COMMA, NL,
        Key("elements"), COLON, SP, LK, RK, SP, RB>>,
      UiDocOneElement,
      <<Key("ok")>>, <<ONE>>, <<LK, RK>>, <<LK, ONE, COMMA, ONE, RK>>, <<NULL>>, <<TRUE_>>,
      <<LB, Key("summary"), COLON, Key("ok"), RB>>,
      <<LB, Key("elements"), COLON, LK, RK, RB>>,
      <<LB, Key("summary"), COLON, ONE, COMMA, Key("elements"), COLON, LK, RK, RB>>,
      <<LB, Key("summary"), COLON, Key("ok"), COMMA, Key("elements"), COLON, LB, RB, RB>>,
      <<LB, Key("summary"), COLON, Key("ok"), COMMA, Key("elements"), COLON, LK, ONE, RK, RB>>,
      <<LB, Key("summary"), COLON, Key("ok"), COMMA, Key("elements"), COLON, LK, RK>>,
      <<LB, Key("summary"), Key("ok"), RB>>,
      <<LB, Key("summary"), COLON, Key("ok"), COMMA, RB>>,
      <<LK, ONE, COMMA, RK>>,
      <<Word("The"), SP, Word("screen"), SP, Word("shows"), SP, Word("a"), SP, Word("button")>>,
      <<SP, Word("Save"), NL, Word("Cancel"), NL>>,
      <<Word("Here"), SP>> \o UiDoc,
      UiDoc \o <<NL, Word("Done")>> }

ReplyTexts == ShortTexts \cup SampleTexts

\* A response body {"message": <value>, "done": true}
MessageBody(value) ==
    <<LB, Key("message"), COLON>> \o value \o <<COMMA, Key("done"), COLON, TRUE_, RB>>

\* A response body whose message is {"role": "assistant", "content": <value>}
ContentBody(value) ==
    MessageBody(<<LB, Key("role"), COLON, Key("assistant"), COMMA, Key("content"), COLON>>
                \o value \o <<RB>>)

Bodies ==
    { <<Word("<html>")>>, <<LK, RK>>, <<LB, RB>>,
      <<LB, Key("done"), COLON, TRUE_, RB>>,
      MessageBody(<<NULL>>), MessageBody(<<LB, RB>>), MessageBody(<<Key("hi")>>),
      MessageBody(<<LB, Key("role"), COLON, Key("assistant"), RB>>),
      ContentBody(<<NULL>>), ContentBody(<<ONE>>) }
    \cup {ContentBody(<<Str(text)>>) : text \in ReplyTexts}

\* What requests.post comes to: no connection, no answer in TIMEOUT_S, or a
\* response.
Outcomes ==
    { [kind |-> "ConnectionError", status |-> 0, body |-> <<>>],
      [kind |-> "Timeout",         status |-> 0, body |-> <<>>] }
    \cup {[kind |-> "response", status |-> 200, body |-> b] : b \in Bodies}
    \cup {[kind |-> "response", status |-> st, body |-> b] :
            st \in {404, 500}, b \in {<<Word("<html>")>>, ContentBody(<<Str(UiDoc)>>)}}

NoResponse == [kind |-> "", status |-> 0, body |-> <<>>]

\* bool(value) is False
Falsy(v) ==
    \/ v = NULL
    \/ v = <<"lit", "false">>
    \/ v = ZERO
    \/ v[1] \in {"str", "obj", "arr"} /\ v[2] = <<>>

EmptyDict == <<"obj", <<>>>>
EmptyStr  == Str(<<>>)

\* ChatResult without raise_for_status(): an error response is read like any
\* other.
ChatResultAnyStatus(o) ==
    LET fail(type, msg) == [ok |-> FALSE, text |-> <<>>,
                            err |-> [type |-> type, msg |-> msg, arg |-> <<o.status>>]]
        data    == JsonLoads(o.body)
        message == DictGet(data.v[2], <<Word("message")>>, EmptyDict)
        msg     == IF Falsy(message) THEN EmptyDict ELSE message
        content == DictGet(msg[2], <<Word("content")>>, EmptyStr)
    IN  IF o.kind # "response" THEN fail(o.kind, "")
        ELSE IF ~data.ok THEN fail("JSONDecodeError", "")
        ELSE IF data.v[1] # "obj" THEN fail("AttributeError", "has no attribute 'get'")
        ELSE IF msg[1] # "obj" THEN fail("AttributeError", "has no attribute 'get'")
        ELSE IF content[1] # "str" THEN fail("AttributeError", "has no attribute 'strip'")
        ELSE [ok |-> TRUE, text |-> Strip(content[2]), err |-> NoError]

\* The rest of _ollama_chat_with_image once requests.post is over:
\* raise_for_status(), json(), and the message content stripped.
ChatResult(o) ==
    LET fail(type, msg) == [ok |-> FALSE, text |-> <<>>,
                            err |-> [type |-> type, msg |-> msg, arg |-> <<o.status>>]]
        data    == JsonLoads(o.body)
        message == DictGet(data.v[2], <<Word("message")>>, EmptyDict)
        msg     == IF Falsy(message) THEN EmptyDict ELSE message
        content == DictGet(msg[2], <<Word("content")>>, EmptyStr)
    IN  IF o.kind # "response" THEN fail(o.kind, "")
        ELSE IF o.status >= 400 /\ o.status < 600 THEN fail("HTTPError", "for url")
        ELSE IF ~data.ok THEN fail("JSONDecodeError", "")
        ELSE IF data.v[1] # "obj" THEN fail("AttributeError", "has no attribute 'get'")
        ELSE IF msg[1] # "obj" THEN fail("AttributeError", "has no attribute 'get'")
        ELSE IF content[1] # "str" THEN fail("AttributeError", "has no attribute 'strip'")
        ELSE [ok |-> TRUE, text |-> Strip(content[2]), err |-> NoError]

\* The prompts of vision_ocr and vision_ui_spec
OcrPrompt == "Extract ALL visible text from this image. ..."
UiPrompt  == "You are extracting a UI spec from a screenshot. Return JSON ONLY ..."

Tools == {"vision_ask", "vision_ocr", "vision_ui_spec"}

\* The prompt argument each tool gives _ollama_chat_with_image
PromptOf(t, q) ==
    IF t = "vision_ask" THEN q ELSE IF t = "vision_ocr" THEN OcrPrompt ELSE UiPrompt

\* JsonModeOf with structured output asked for by vision_ocr as well.
JsonModeOfOcrToo(t) == t \in {"vision_ocr", "vision_ui_spec"}

\* The json_mode argument each tool gives _ollama_chat_with_image
JsonModeOf(t) == t = "vision_ui_spec"

\* The payload _ollama_chat_with_image posts: a dict, as <<key, value>> pairs
Payload(model, image, prompt, json_mode) ==
    LET base == << <<"model", model>>,
                   <<"messages", << << <<"role", "user">>,
                                       <<"content", prompt>>,
                                       <<"images", <<image>>>> >> >> >>,
                   <<"stream", FALSE>> >>
    IN  IF json_mode THEN Append(base, <<"format", "json">>) ELSE base

\* str(path.relative_to(root))
RelativeTo(path, root) == SubSeq(path, Len(root) + 1, Len(path))

\* ToolResult with the raw text kept beside the parsed document.
ToolResultKeepsRaw(t, model, image, raw) ==
    LET head   == << <<"model", model>>, <<"image", image>> >>
        parsed == JsonLoads(raw)
    IN  IF t = "vision_ask" THEN Append(head, <<"answer", raw>>)
        ELSE IF t = "vision_ocr" THEN Append(head, <<"text", raw>>)
        ELSE IF parsed.ok THEN head \o << <<"ui", parsed.v>>, <<"ui_raw", raw>> >>
        ELSE Append(head, <<"ui_raw", raw>>)

\* ToolResult with only a JSON object counted as parsed.
ToolResultObjectsOnly(t, model, image, raw) ==
    LET head   == << <<"model", model>>, <<"image", image>> >>
        parsed == JsonLoads(raw)
    IN  IF t = "vision_ask" THEN Append(head, <<"answer", raw>>)
        ELSE IF t = "vision_ocr" THEN Append(head, <<"text", raw>>)
        ELSE IF parsed.ok /\ parsed.v[1] = "obj" THEN Append(head, <<"ui", parsed.v>>)
        ELSE Append(head, <<"ui_raw", raw>>)

\* The dict a tool returns for the reply text `raw`
ToolResult(t, model, image, raw) ==
    LET head   == << <<"model", model>>, <<"image", image>> >>
        parsed == JsonLoads(raw)
    IN  IF t = "vision_ask" THEN Append(head, <<"answer", raw>>)
        ELSE IF t = "vision_ocr" THEN Append(head, <<"text", raw>>)
        ELSE IF parsed.ok THEN Append(head, <<"ui", parsed.v>>)
        ELSE Append(head, <<"ui_raw", raw>>)

\* What _load_image_b64 comes to for the file node at a validated path:
\* Image.open fails on a directory and on data no codec reads, resize on an
\* empty target size; else the image is encoded at its target size.
LoadResult(path, node, maxEdge) ==
    LET target == TargetSize(node.size, maxEdge)
        fail(type, msg, arg) == [ok |-> FALSE, image |-> <<>>,
                                 err |-> [type |-> type, msg |-> msg, arg |-> arg]]
    IN  IF node.kind # "file" THEN fail("IsADirectoryError", "Is a directory", path)
        ELSE IF node.size = <<0, 0>>
        THEN fail("UnidentifiedImageError", "cannot identify image file", path)
        ELSE IF target[1] < 1 \/ target[2] < 1
        THEN fail("ValueError", "height and width must be > 0", target)
        ELSE [ok |-> TRUE, image |-> <<"png", path, target>>, err |-> NoError]

(***************************************************************************)
(* The state: the module's configuration, the filesystem, and the one tool *)
(* call in progress (the transport delivers one call at a time).           *)
(***************************************************************************)
VARIABLES
    WORKSPACE_ROOT, OLLAMA_HOST, OLLAMA_MODEL, MAX_IMAGE_EDGE, TIMEOUT_S,
    fs,          \* the filesystem
    pc,          \* where the call stands
    tool, image_path, question,   \* the call and its arguments
    path,        \* the validated path, once resolved
    b64,         \* the encoded image, once loaded
    requests,    \* the payloads posted to the backend during the call
    response,    \* what the post came to
    reply,       \* the reply text _ollama_chat_with_image returned
    result,      \* the dict the tool returned
    error,       \* the exception that ended the call
    previous     \* history: how the call before this one ended ("idle": there
                 \* was none), in the specifications that record it

config == <<WORKSPACE_ROOT, OLLAMA_HOST, OLLAMA_MODEL, MAX_IMAGE_EDGE, TIMEOUT_S>>
call   == <<tool, image_path, question>>
vars   == <<config, fs, pc, call, path, b64, requests, response, reply, result, error,
           previous>>

DefaultMaxEdge == 1600
DefaultTimeout == 120

\* VISION_MAX_EDGE settings the bridge is started with
EdgeSettings == {DefaultMaxEdge, 700}

Questions == {"What is in this screenshot?", ""}

\* Nothing of a call is there yet.
Fresh ==
    /\ path = <<>>
    /\ b64 = <<>>
    /\ requests = <<>>
    /\ response = NoResponse
    /\ reply = <<>>
    /\ result = <<>>
    /\ error = NoError

Init ==
    /\ WORKSPACE_ROOT = <<<<"w">>>>
    /\ OLLAMA_HOST = "http://localhost:11434"
    /\ OLLAMA_MODEL = "qwen2.5vl:7b"
    /\ MAX_IMAGE_EDGE \in EdgeSettings
    /\ TIMEOUT_S = DefaultTimeout
    /\ fs \in Layouts
    /\ pc = "idle"
    /\ tool = ""
    /\ image_path = <<>>
    /\ question = ""
    /\ Fresh
    /\ previous = "unrecorded"

\* Call with the image of the last call kept and used again when there is
\* one, as a cache between calls would.
CallKeepingImage(t, p, q) ==
    /\ pc \in {"idle", "returned", "failed"}
    /\ pc' = IF b64 # <<>> THEN "chat" ELSE "resolve"
    /\ tool' = t
    /\ image_path' = p
    /\ question' = q
    /\ path' = IF b64 # <<>> THEN path ELSE <<>>
    /\ b64' = b64
    /\ requests' = <<>>
    /\ response' = NoResponse
    /\ reply' = <<>>
    /\ result' = <<>>
    /\ error' = NoError
    /\ previous' = IF previous = "unrecorded" THEN previous ELSE pc
    /\ UNCHANGED <<config, fs>>

\* The transport delivers a tool call; what the last call left is gone.
Call(t, p, q) ==
    /\ pc \in {"idle", "returned", "failed"}
    /\ pc' = "resolve"
    /\ tool' = t
    /\ image_path' = p
    /\ question' = q
    /\ path' = <<>>
    /\ b64' = <<>>
    /\ requests' = <<>>
    /\ response' = NoResponse
    /\ reply' = <<>>
    /\ result' = <<>>
    /\ error' = NoError
    /\ previous' = IF previous = "unrecorded" THEN previous ELSE pc
    /\ UNCHANGED <<config, fs>>

\* path = _resolve_workspace_path(image_path)
ResolveStep ==
    /\ pc = "resolve"
    /\ LET r == ResolveWorkspacePath(fs, WORKSPACE_ROOT, image_path) IN
        /\ pc' = IF r.ok THEN "load" ELSE "failed"
        /\ path' = r.path
        /\ error' = r.err
    /\ UNCHANGED <<config, fs, call, b64, requests, response, reply, result, previous>>

\* b64 = _load_image_b64(path)
LoadStep ==
    /\ pc = "load"
    /\ LET r == LoadResult(path, fs[path], MAX_IMAGE_EDGE) IN
        /\ pc' = IF r.ok THEN "chat" ELSE "failed"
        /\ b64' = r.image
        /\ error' = r.err
    /\ UNCHANGED <<config, fs, call, path, requests, response, reply, result, previous>>

\* _ollama_chat_with_image(b64, prompt, json_mode)
ChatStep ==
    /\ pc = "chat"
    /\ \E o \in Outcomes :
        LET r == ChatResult(o) IN
        /\ requests' = Append(requests, Payload(OLLAMA_MODEL, b64, PromptOf(tool, question),
                                                 JsonModeOf(tool)))
        /\ response' = o
        /\ pc' = IF r.ok THEN "shape" ELSE "failed"
        /\ reply' = r.text
        /\ error' = r.err
    /\ UNCHANGED <<config, fs, call, path, b64, result, previous>>

\* the handler's return statement
ReturnStep ==
    /\ pc = "shape"
    /\ result' = ToolResult(tool, OLLAMA_MODEL, RelativeTo(path, WORKSPACE_ROOT), reply)
    /\ pc' = "returned"
    /\ UNCHANGED <<config, fs, call, path, b64, requests, response, reply, error, previous>>

Next ==
    \/ \E t \in Tools, p \in ImagePaths, q \in Questions :
        (t = "vision_ask" \/ q = "") /\ Call(t, p, q)
    \/ ResolveStep
    \/ LoadStep
    \/ ChatStep
    \/ ReturnStep

Spec == Init /\ [][Next]_vars

(***************************************************************************)
(* Normalization alone: one image of every small size (and some sizes of   *)
(* real screenshots) under every small VISION_MAX_EDGE, asked about once.  *)
(***************************************************************************)
MaxDim  == 12
MaxEdge == 5

SampleCases ==
    { <<<<3200, 1800>>, 1600>>, <<<<800, 600>>, 1600>>, <<<<3222, 3036>>, 1003>>,
      <<<<1600, 1601>>, 1600>>, <<<<49, 49>>, 1>>, <<<<3200, 1>>, 1600>> }

NormCases == (((1..MaxDim) \X (1..MaxDim)) \X (1..MaxEdge)) \cup SampleCases

\* The workspace holding one image, a.png, of the given size.
NormLayout(wh) ==
    (<<<<"w">>>> :> DirNode) @@ (<<<<"w">>, <<"a", ".", "p", "n", "g">>>> :> ImageFile(wh))

NormInit ==
    /\ WORKSPACE_ROOT = <<<<"w">>>>
    /\ OLLAMA_HOST = "http://localhost:11434"
    /\ OLLAMA_MODEL = "qwen2.5vl:7b"
    /\ TIMEOUT_S = DefaultTimeout
    /\ \E c \in NormCases : fs = NormLayout(c[1]) /\ MAX_IMAGE_EDGE = c[2]
    /\ pc = "idle"
    /\ tool = ""
    /\ image_path = <<>>
    /\ question = ""
    /\ Fresh
    /\ previous = "unrecorded"

NormNext ==
    \/ Call("vision_ask", <<"a", ".", "p", "n", "g">>, "")
    \/ ResolveStep
    \/ LoadStep

NormSpec == NormInit /\ [][NormNext]_vars

(***************************************************************************)
(* Calls in sequence, with how the call before ended on record: a few      *)
(* paths of each fate, every tool, every answer of the backend.            *)
(***************************************************************************)
SeqPaths ==
    { <<"a", ".", "p", "n", "g">>,                           \* an image
      <<"k">>,                                               \* a link to it
      <<"c", ".", "g", "i", "f">>,                           \* unsupported type
      <<"x", ".", "p", "n", "g">>,                           \* missing
      <<".", ".", "/", "e", "/", "p", ".", "p", "n", "g">>,  \* outside the root
      <<"n", ".", "j", "p", "e", "g">>                       \* no image data
    }

SeqInit ==
    /\ WORKSPACE_ROOT = <<<<"w">>>>
    /\ OLLAMA_HOST = "http://localhost:11434"
    /\ OLLAMA_MODEL = "qwen2.5vl:7b"
    /\ MAX_IMAGE_EDGE \in EdgeSettings
    /\ TIMEOUT_S = DefaultTimeout
    /\ fs \in Layouts
    /\ pc = "idle"
    /\ tool = ""
    /\ image_path = <<>>
    /\ question = ""
    /\ Fresh
    /\ previous = "idle"

SeqNext ==
    \/ \E t \in Tools, p \in SeqPaths, q \in Questions :
        (t = "vision_ask" \/ q = "") /\ Call(t, p, q)
    \/ ResolveStep
    \/ LoadStep
    \/ ChatStep
    \/ ReturnStep

SeqSpec == SeqInit /\ [][SeqNext]_vars

(***************************************************************************)
(* Properties.                                                             *)
(***************************************************************************)
OutsideRootMsg == "Path must be within workspace root: "
NotFoundMsg    == "File not found: "
UnsupportedMsg == "Unsupported image type: "

\* _resolve_workspace_path has run for the call in progress
Resolved == pc \notin {"idle", "resolve"}

\* ... and raised
ResolutionFailed ==
    pc = "failed" /\ error.msg \in {OutsideRootMsg, NotFoundMsg, UnsupportedMsg}

\* ... and returned a path
ResolvedOk == Resolved /\ ~ResolutionFailed

\* The fully resolved form of image_path, joined onto the root when relative
Canonical ==
    LET raw == PathOf(image_path)
    IN  Resolve(fs, IF raw.abs THEN raw.parts ELSE WORKSPACE_ROOT \o raw.parts)

\* c is the workspace root or lies under it
Inside(c) == \E k \in 0..Len(c) : SubSeq(c, 1, k) = WORKSPACE_ROOT

\* C1: a path whose fully resolved form is neither the workspace root nor
\* under it fails with the OutsideRoot error, which names the root, whether
\* or not the target exists; every path resolution returns is inside the root.
C1_OutsideRootRejected ==
    Resolved =>
        /\ ~Inside(Canonical) =>
              /\ pc = "failed"
              /\ error.type = "ValueError"
              /\ error.msg = OutsideRootMsg
              /\ error.arg = WORKSPACE_ROOT
        /\ ResolvedOk => Inside(path)

\* C1 witness: a path through a symbolic link that leaves the root is refused.
C1_Witness ==
    /\ pc = "failed"
    /\ image_path = <<"l", "/", "p", ".", "p", "n", "g">>
    /\ Canonical = <<<<"e">>, <<"p", ".", "p", "n", "g">>>>
    /\ error.msg = OutsideRootMsg

\* C2: the checks run in the order containment, existence, extension, and
\* the first that fails decides the error: outside the root gives OutsideRoot
\* (existing or not), inside but missing gives NotFound (whatever the
\* extension), and UnsupportedType comes only for a path inside that exists.
C2_FirstFailingCheckDecides ==
    Resolved =>
        LET c == Canonical IN
        /\ ~Inside(c) => pc = "failed" /\ error.msg = OutsideRootMsg
        /\ (Inside(c) /\ ~Exists(fs, c)) =>
              pc = "failed" /\ error.type = "FileNotFoundError" /\ error.msg = NotFoundMsg
        /\ (pc = "failed" /\ error.msg = UnsupportedMsg) => Inside(c) /\ Exists(fs, c)

\* C2 witness: a path outside the root that does not exist, with an allowed
\* extension, is refused as outside the root.
C2_Witness ==
    /\ pc = "failed"
    /\ image_path = <<".", ".", "/", ".", ".", "/", "e", "/", "q", ".", "p", "n", "g">>
    /\ ~Exists(fs, Canonical)
    /\ error.msg = OutsideRootMsg

\* C3 (as claimed): resolution returns only regular files; a directory inside
\* the root, like a missing path, fails with NotFound.
C3_OnlyRegularFilesResolve ==
    Resolved =>
        LET c == Canonical IN
        /\ ResolvedOk => path \in DOMAIN fs /\ fs[path].kind = "file"
        /\ (Inside(c) /\ (~Exists(fs, c) \/ c = WORKSPACE_ROOT \/ fs[c].kind = "dir")) =>
              pc = "failed" /\ error.msg = NotFoundMsg

\* C4: for an existing file inside the root, resolution returns it exactly
\* when its extension, lower-cased, is .png, .jpg, .jpeg, .webp or .bmp; any
\* other extension (or none) fails with UnsupportedType naming the extension,
\* whatever the file holds.
C4_ExtensionDecides ==
    Resolved =>
        LET c   == Canonical
            ext == Suffix(NameOf(c))
        IN  (Inside(c) /\ c \in DOMAIN fs /\ fs[c].kind = "file") =>
                IF ToLower(ext) \in AllowedSuffixes
                THEN ResolvedOk /\ path = c
                ELSE /\ pc = "failed"
                     /\ error.type = "ValueError"
                     /\ error.msg = UnsupportedMsg
                     /\ error.arg = ext

\* C4 witness: c.gif holds a readable image and is refused for its extension.
C4_Witness ==
    /\ pc = "failed"
    /\ image_path = <<"c", ".", "g", "i", "f">>
    /\ fs[Canonical].size # <<0, 0>>
    /\ error.msg = UnsupportedMsg
    /\ error.arg = <<".", "g", "i", "f">>

\* The target size _load_image_b64 computed in the call, if it got to one
HasTarget ==
    \/ pc = "chat"
    \/ pc = "failed" /\ error.msg = "height and width must be > 0"

Target == IF pc = "chat" THEN b64[3] ELSE error.arg

\* C5: the longest edge of the normalized image never exceeds MAX_IMAGE_EDGE;
\* an image whose longest edge is within it keeps its size; a larger one
\* comes out with its longest edge at MAX_IMAGE_EDGE or one pixel less, each
\* side within one pixel below side * MAX_IMAGE_EDGE / edge; 3200x1800 under
\* 1600 comes out 1600x900.
C5_LongestEdgeBounded ==
    HasTarget =>
        LET size == fs[path].size
            edge == Max(size[1], size[2])
            M    == MAX_IMAGE_EDGE
            out  == Target
        IN  /\ Max(out[1], out[2]) <= M
            /\ edge <= M => out = size
            /\ edge > M =>
                 /\ Max(out[1], out[2]) >= M - 1
                 /\ \A i \in 1..2 :
                      /\ out[i] * edge <= size[i] * M
                      /\ size[i] * M <= (out[i] + 1) * edge
            /\ (size = <<3200, 1800>> /\ M = 1600) => out = <<1600, 900>>

\* C5 witness: the 3200x1800 image has been normalized to 1600x900.
C5_Witness ==
    /\ pc = "chat"
    /\ fs[path].size = <<3200, 1800>>
    /\ MAX_IMAGE_EDGE = 1600
    /\ b64[3] = <<1600, 900>>

\* A successful vision_ui_spec call
UiSpecReturned == pc = "returned" /\ tool = "vision_ui_spec"

\* The parsed value has the UiSpecDocument shape: an object with a text
\* summary and a list of element objects.
IsUiSpecDocument(v) ==
    /\ v[1] = "obj"
    /\ HasKey(v[2], <<Word("summary")>>)
    /\ DictGet(v[2], <<Word("summary")>>, NULL)[1] = "str"
    /\ HasKey(v[2], <<Word("elements")>>)
    /\ LET els == DictGet(v[2], <<Word("elements")>>, NULL)
       IN  els[1] = "arr" /\ \A i \in 1..Len(els[2]) : els[2][i][1] = "obj"

\* The text is plain prose: it has words outside any string.
IsProse(text) == \E i \in 1..Len(text) : text[i][1] = "word"

\* The text of the message content in the response the backend gave
SentContent ==
    CHOOSE text \in ReplyTexts \cup {<<>>} :
        response.body = ContentBody(<<Str(text)>>) \/ text = <<>>

\* {"summary": "ok", "elements": []} as parsed
UiDocParsed ==
    <<"obj", << << <<Word("summary")>>, Key("ok") >>,
                << <<Word("elements")>>, <<"arr", <<>>>> >> >> >>

\* C6: a successful ui-spec call returns exactly one of ui and ui_raw; a
\* reply that is a UiSpecDocument comes back parsed under ui, without ui_raw
\* ({"summary":"ok","elements":[]} for one); a reply of plain prose comes
\* back under ui_raw, trimmed, without ui.
C6_ExactlyOneOfUiAndUiRaw ==
    UiSpecReturned =>
        LET parsed == JsonLoads(reply) IN
        /\ HasKey(result, "ui") # HasKey(result, "ui_raw")
        /\ (parsed.ok /\ IsUiSpecDocument(parsed.v)) =>
              /\ DictGet(result, "ui", <<>>) = parsed.v
              /\ ~HasKey(result, "ui_raw")
        /\ Strip(reply) = UiDoc => DictGet(result, "ui", <<>>) = UiDocParsed
        /\ IsProse(reply) =>
              /\ DictGet(result, "ui_raw", <<>>) = reply
              /\ response.body = ContentBody(<<Str(SentContent)>>) =>
                    DictGet(result, "ui_raw", <<>>) = Strip(SentContent)
              /\ ~HasKey(result, "ui")

\* C6 witness: the document came padded with whitespace and is returned
\* parsed.
C6_Witness ==
    /\ UiSpecReturned
    /\ response.body = ContentBody(<<Str(<<NL, SP>> \o UiDoc \o <<NL>>)>>)
    /\ DictGet(result, "ui", <<>>) = UiDocParsed

\* C7 (as claimed): whenever the reply is not a UiSpecDocument - malformed,
\* prose, or well-formed data of another shape - the successful result
\* carries ui_raw with the reply text and no ui.
C7_WrongShapeFallsBack ==
    UiSpecReturned =>
        LET parsed == JsonLoads(reply) IN
        ~(parsed.ok /\ IsUiSpecDocument(parsed.v)) =>
            /\ DictGet(result, "ui_raw", <<>>) = reply
            /\ HasKey(result, "ui_raw")
            /\ ~HasKey(result, "ui")

\* C7 (amended): once vision_ui_spec has the reply, the call returns; a reply
\* that is not valid JSON comes back under ui_raw with no ui, and every reply
\* that is valid JSON, whatever its shape, comes back parsed under ui with no
\* ui_raw.
C7_InvalidJsonFallsBack ==
    [][(pc = "shape" /\ tool = "vision_ui_spec") =>
         /\ pc' = "returned"
         /\ error' = NoError
         /\ LET parsed == JsonLoads(reply) IN
            IF parsed.ok
            THEN /\ HasKey(result', "ui") /\ ~HasKey(result', "ui_raw")
                 /\ DictGet(result', "ui", <<>>) = parsed.v
            ELSE /\ HasKey(result', "ui_raw") /\ ~HasKey(result', "ui")
                 /\ DictGet(result', "ui_raw", <<>>) = reply]_vars

\* C7 witness: a document with a trailing comma is returned raw.
C7_Witness ==
    /\ UiSpecReturned
    /\ reply = <<LB, Key("summary"), COLON, Key("ok"), COMMA, RB>>
    /\ DictGet(result, "ui_raw", <<>>) = reply
    /\ ~HasKey(result, "ui")

\* C8: every request posted has one message, of role user, with one image
\* (the encoded image of the call), stream false, and format "json" exactly
\* for vision_ui_spec; vision_ask sends the question as the content.
C8_RequestShape ==
    \A i \in 1..Len(requests) :
        LET p    == requests[i]
            msgs == DictGet(p, "messages", <<>>)
            imgs == DictGet(msgs[1], "images", <<>>)
        IN  /\ DictGet(p, "model", "") = OLLAMA_MODEL
            /\ Len(msgs) = 1
            /\ DictGet(msgs[1], "role", "") = "user"
            /\ Len(imgs) = 1
            /\ b64 # <<>> /\ imgs[1] = b64
            /\ HasKey(p, "stream") /\ DictGet(p, "stream", TRUE) = FALSE
            /\ HasKey(p, "format") <=> tool = "vision_ui_spec"
            /\ HasKey(p, "format") => DictGet(p, "format", "") = "json"
            /\ tool = "vision_ask" => DictGet(msgs[1], "content", "") = question

\* C8 witness: vision_ocr has posted its request, without format.
C8_Witness ==
    /\ tool = "vision_ocr"
    /\ Len(requests) = 1
    /\ ~HasKey(requests[1], "format")
    /\ DictGet(DictGet(requests[1], "messages", <<>>)[1], "content", "") = OcrPrompt

BackendFailed ==
    \/ response.kind \in {"ConnectionError", "Timeout"}
    \/ response.kind = "response" /\ response.status >= 400

LoadFailed ==
    /\ pc = "failed"
    /\ error.type \in {"IsADirectoryError", "UnidentifiedImageError"}
       \/ error.msg = "height and width must be > 0"

\* C9: the backend is posted to at most once in a call, and only with a
\* validated path and an encoded image in hand; an image is loaded only from
\* a validated path; a call that fails in resolution or loading has posted
\* nothing; a connection failure, timeout or error status fails the call; a
\* failed call has no result, and a result comes only from a call that
\* posted once and did not fail.
C9_StagesInOrderNoPartialResult ==
    /\ Len(requests) <= 1
    /\ requests # <<>> => path # <<>> /\ b64 # <<>>
    /\ b64 # <<>> => path # <<>>
    /\ (ResolutionFailed \/ LoadFailed) => requests = <<>> /\ response = NoResponse
    /\ ResolutionFailed => b64 = <<>>
    /\ BackendFailed => pc = "failed" /\ Len(requests) = 1
    /\ pc = "failed" => result = <<>> /\ error # NoError
    /\ result # <<>> => pc = "returned" /\ Len(requests) = 1 /\ error = NoError

\* C9 witness: vision_ask got HTTP 500 from its one request and failed with
\* no result.
C9_Witness ==
    /\ tool = "vision_ask"
    /\ response.kind = "response" /\ response.status = 500
    /\ pc = "failed"
    /\ error.type = "HTTPError"
    /\ Len(requests) = 1
    /\ result = <<>>

\* The backend answered with a success status and a JSON object whose
\* message is absent, null or an object, and whose content there is absent,
\* null or a string.
ContentAbsentOrText ==
    /\ response.kind = "response" /\ response.status >= 200 /\ response.status < 300
    /\ LET data == JsonLoads(response.body) IN
       /\ data.ok /\ data.v[1] = "obj"
       /\ LET message == DictGet(data.v[2], <<Word("message")>>, NULL) IN
          \/ message = NULL
          \/ /\ message[1] = "obj"
             /\ LET content == DictGet(message[2], <<Word("content")>>, NULL)
                IN  content = NULL \/ content[1] = "str"

\* The content string of such a response, empty when absent or null
ContentOrEmpty ==
    LET data    == JsonLoads(response.body)
        message == DictGet(data.v[2], <<Word("message")>>, NULL)
        content == IF message = NULL THEN NULL
                   ELSE DictGet(message[2], <<Word("content")>>, NULL)
    IN  IF content = NULL THEN <<>> ELSE content[2]

\* C10 (as claimed): on a success response the reply is the message content
\* trimmed, the empty string when the message or its content is absent or
\* null, and the call does not fail there.
C10_AbsentContentIsEmptyReply ==
    ContentAbsentOrText =>
        /\ pc # "failed"
        /\ reply = Strip(ContentOrEmpty)

\* What the call in progress comes to, from its own arguments, the files,
\* the configuration and the backend's answer alone.
OutcomeOfOwnInputs ==
    LET r == ResolveWorkspacePath(fs, WORKSPACE_ROOT, image_path)
        l == LoadResult(r.path, fs[r.path], MAX_IMAGE_EDGE)
        c == ChatResult(response)
        ok == r.ok /\ l.ok /\ c.ok
    IN  /\ pc = "resolve" => Fresh
        /\ pc \in {"returned", "failed"} => (pc = "returned" <=> ok)
        /\ pc = "returned" =>
              /\ error = NoError
              /\ result = ToolResult(tool, OLLAMA_MODEL,
                                     RelativeTo(r.path, WORKSPACE_ROOT), c.text)
        /\ pc = "failed" =>
              /\ result = <<>>
              /\ error = IF ~r.ok THEN r.err ELSE IF ~l.ok THEN l.err ELSE c.err
              /\ ~r.ok => b64 = <<>> /\ requests = <<>>
              /\ (r.ok /\ ~l.ok) => requests = <<>>

\* C11: no step of any call changes the configuration or the filesystem, a
\* call starts with nothing left of the calls before it, and however the
\* call before ended, what a call comes to (returned or failed, the result,
\* the error) is decided by its own arguments, the filesystem, the
\* configuration and the backend's answer to it.
C11_StatelessAcrossCalls ==
    /\ []OutcomeOfOwnInputs
    /\ [][config' = config /\ fs' = fs]_vars

\* C11 witness: after a call that returned, a call for c.gif has failed on
\* its own path, with no image and no request of the earlier call in it.
C11_Witness ==
    /\ previous = "returned"
    /\ pc = "failed"
    /\ image_path = <<"c", ".", "g", "i", "f">>
    /\ error.msg = UnsupportedMsg
    /\ b64 = <<>> /\ requests = <<>> /\ result = <<>>
    /\ MAX_IMAGE_EDGE \in EdgeSettings /\ fs \in Layouts

\* C12 (as claimed): whenever the image is downscaled, both sides of the
\* size handed to resize are at least one pixel, so the resize goes through
\* (3200x1 under 1600 included).
C12_TargetAtLeastOnePixel ==
    (HasTarget /\ Max(fs[path].size[1], fs[path].size[2]) > MAX_IMAGE_EDGE) =>
        /\ Target[1] >= 1
        /\ Target[2] >= 1
        /\ pc = "chat"

====
